---- MODULE Spec2Model ----
(***************************************************************************)
(* A model of the contract calculator's calculation engine: the validator, *)
(* the global configuration with its listeners, and the four engines       *)
(* (profit, liquidation price, position sizing, average price).            *)
(*                                                                         *)
(* JavaScript numbers are modelled as exact rationals n/d (kind "fin"),    *)
(* plus NaN, +Infinity/-Infinity and one finite value above the 1e15       *)
(* sanity limit (kind "huge").  A loosely typed JavaScript value carries   *)
(* its type tag and the results of its two conversions, parseFloat(v) and  *)
(* Number(v), which differ for strings such as "5abc" and "0x2".           *)
(***************************************************************************)
EXTENDS Integers, Sequences, FiniteSets, TLC

VARIABLES direction, makerFeeRate, takerFeeRate, listeners,
          positions, clock, last, notified

vars == <<direction, makerFeeRate, takerFeeRate, listeners, positions, clock, last,
          notified>>

(***************************************************************************)
(* Bounds of the model.                                                    *)
(***************************************************************************)
\* Largest number of invalid arguments offered in one call of an engine.
MaxBad == 2
\* Largest number of fill records kept in the collection.
MaxPositions == 2
\* Largest value of the millisecond clock read by Date.now().
MaxClock == 2
\* Largest number of registered configuration listeners.
MaxListeners == 2
\* Bits in the significand of the floating-point format used where rounding
\* is modelled (binary64 has 53).
MantissaBits == 5

(***************************************************************************)
(* Numbers.                                                                *)
(***************************************************************************)
Abs(x) == IF x < 0 THEN -x ELSE x

RECURSIVE GCD(_, _)
GCD(a, b) == IF b = 0 THEN a ELSE GCD(b, a % b)

\* The rational n/d (d # 0) in lowest terms with a positive denominator.
Fin(n, d) ==
    LET g == GCD(Abs(n), Abs(d))
        s == IF d < 0 THEN -1 ELSE 1
    IN  [k |-> "fin", n |-> (s * n) \div g, d |-> (s * d) \div g]

Whole(n) == Fin(n, 1)
Zero == Whole(0)
NaN == [k |-> "nan", n |-> 0, d |-> 1]
Inf == [k |-> "inf", n |-> 1, d |-> 1]
NegInf == [k |-> "inf", n |-> -1, d |-> 1]
\* A finite double whose magnitude exceeds the 1e15 limit of isExtremeValue.
Huge == [k |-> "huge", n |-> 1, d |-> 1]

Sign(a) == IF a.n > 0 THEN 1 ELSE IF a.n < 0 THEN -1 ELSE 0
SignedInf(s) == IF s > 0 THEN Inf ELSE NegInf

\* a + b
Add(a, b) ==
    CASE a.k = "nan" \/ b.k = "nan" -> NaN
      [] a.k = "fin" /\ b.k = "fin" -> Fin(a.n * b.d + b.n * a.d, a.d * b.d)
      [] a.k = "inf" /\ b.k = "inf" -> IF a.n = b.n THEN a ELSE NaN
      [] a.k = "inf" /\ b.k = "fin" -> a
      [] a.k = "fin" /\ b.k = "inf" -> b

\* -a
Neg(a) == [a EXCEPT !.n = -a.n]

\* a - b
Sub(a, b) == Add(a, Neg(b))

\* a * b
Mul(a, b) ==
    CASE a.k = "nan" \/ b.k = "nan" -> NaN
      [] a.k = "fin" /\ b.k = "fin" -> Fin(a.n * b.n, a.d * b.d)
      [] a.k \in {"fin", "inf"} /\ b.k \in {"fin", "inf"} ->
            IF Sign(a) * Sign(b) = 0 THEN NaN ELSE SignedInf(Sign(a) * Sign(b))

\* a / b
Div(a, b) ==
    CASE a.k = "nan" \/ b.k = "nan" -> NaN
      [] a.k = "fin" /\ b.k = "fin" ->
            IF b.n # 0 THEN Fin(a.n * b.d, a.d * b.n)
            ELSE IF a.n = 0 THEN NaN ELSE SignedInf(Sign(a))
      [] a.k = "inf" /\ b.k = "inf" -> NaN
      [] a.k = "inf" /\ b.k = "fin" -> SignedInf(Sign(a) * (IF b.n < 0 THEN -1 ELSE 1))
      [] a.k = "fin" /\ b.k = "inf" -> Zero

\* Position of a non-NaN number among the kinds, for ordering across kinds.
Level(a) ==
    CASE a.k = "fin" -> 0
      [] a.k = "huge" -> a.n
      [] a.k = "inf" -> 2 * a.n

\* a < b, false when either is NaN
Lt(a, b) ==
    /\ a.k # "nan"
    /\ b.k # "nan"
    /\ IF a.k = "fin" /\ b.k = "fin" THEN a.n * b.d < b.n * a.d
       ELSE Level(a) < Level(b)

Gt(a, b) == Lt(b, a)
Le(a, b) == a.k # "nan" /\ b.k # "nan" /\ ~Lt(b, a)
Ge(a, b) == Le(b, a)

\* the global isNaN and isFinite applied to a number
NumIsNaN(a) == a.k = "nan"
NumIsFinite(a) == a.k \in {"fin", "huge"}

(***************************************************************************)
(* Rounded arithmetic: every operation yields the representable number     *)
(* nearest to the exact result, ties to the even significand.              *)
(***************************************************************************)
RECURSIVE Pow2(_)
Pow2(k) == IF k = 0 THEN 1 ELSE 2 * Pow2(k - 1)

RECURSIVE Exponent(_, _, _)
\* the e with 2^(MantissaBits-1) <= (n/d) / 2^e < 2^MantissaBits, for n/d > 0
Exponent(n, d, e) ==
    IF n >= d * Pow2(MantissaBits) THEN Exponent(n, 2 * d, e + 1)
    ELSE IF n < d * Pow2(MantissaBits - 1) THEN Exponent(2 * n, d, e - 1)
    ELSE e

\* the integer nearest to n/d (n >= 0, d > 0), ties to even
NearestEven(n, d) ==
    LET q == n \div d
        r == n % d
    IN  IF 2 * r < d THEN q
        ELSE IF 2 * r > d THEN q + 1
        ELSE IF q % 2 = 0 THEN q ELSE q + 1

\* the representable number nearest to x
RoundTo(x) ==
    IF x.k # "fin" \/ x.n = 0 THEN x
    ELSE LET n == Abs(x.n)
             e == Exponent(n, x.d, 0)
             m == IF e >= 0 THEN NearestEven(n, x.d * Pow2(e))
                  ELSE NearestEven(n * Pow2(-e), x.d)
         IN  IF e >= 0 THEN Fin(Sign(x) * m * Pow2(e), 1)
             ELSE Fin(Sign(x) * m, Pow2(-e))

\* a / b and a * b in the floating-point format
FDiv(a, b) == RoundTo(Div(a, b))
FMul(a, b) == RoundTo(Mul(a, b))

(***************************************************************************)
(* Loosely typed values: string | number | null | undefined.               *)
(***************************************************************************)
Null == [t |-> "null", pf |-> NaN, nb |-> Zero]
Undefined == [t |-> "undefined", pf |-> NaN, nb |-> NaN]
\* the empty string ''
Empty == [t |-> "empty", pf |-> NaN, nb |-> Zero]
\* a number
Num(x) == [t |-> "number", pf |-> x, nb |-> x]
\* a string holding the decimal literal of x
Str(x) == [t |-> "string", pf |-> x, nb |-> x]
\* the string "abc"
StrAbc == [t |-> "string", pf |-> NaN, nb |-> NaN]
\* the string "5abc": parseFloat reads the prefix, Number rejects the whole
StrPrefix == [t |-> "string", pf |-> Whole(5), nb |-> NaN]
\* the string "0x2": parseFloat stops at the x, Number reads hexadecimal
StrHex == [t |-> "string", pf |-> Zero, nb |-> Whole(2)]

parseFloat(v) == v.pf
\* the implicit ToNumber conversion of the arithmetic and relational operators
ToNumber(v) == v.nb
\* the global isFinite(v) and isNaN(v), which convert with ToNumber first
isFinite(v) == NumIsFinite(ToNumber(v))
isNaN(v) == NumIsNaN(ToNumber(v))
\* x || 0 for a number x
OrZero(x) == IF x.k = "nan" \/ x = Zero THEN Zero ELSE x

(***************************************************************************)
(* validator.js                                                            *)
(***************************************************************************)
isValidNumber(v) ==
    /\ v.t # "empty"
    /\ v.t # "null"
    /\ v.t # "undefined"
    /\ ~NumIsNaN(parseFloat(v))
    /\ isFinite(v)

\* Mutant: zero counts as positive.
isPositive_AllowsZero(v) == isValidNumber(v) /\ Ge(parseFloat(v), Zero)

isPositive(v) == isValidNumber(v) /\ Gt(parseFloat(v), Zero)

isNonNegative(v) == isValidNumber(v) /\ Ge(parseFloat(v), Zero)

isEmpty(v) == v.t \in {"empty", "null", "undefined"}

\* |num| > 1e15: every "fin" value of the model lies within the limit, the
\* "huge" value lies above it.
AboveLimit(num) == num.k = "huge"

isExtremeValue(v) ==
    IF ~isValidNumber(v) THEN FALSE
    ELSE LET num == parseFloat(v)
         IN  ~NumIsFinite(num) \/ NumIsNaN(num) \/ AboveLimit(num)

\* An error thrown by an engine: the message template and the field it names
\* ("" when the message names no field).
Err(msg, field) == [ok |-> FALSE, msg |-> msg, field |-> field]
NoErr == [ok |-> TRUE, msg |-> "", field |-> ""]

\* fields: a sequence of <<fieldName, value>> in insertion order; the result
\* is {isValid, message} with the message split into template and field.
RECURSIVE validateRequiredFields(_)
validateRequiredFields(fields) ==
    IF fields = <<>> THEN NoErr
    ELSE LET fieldName == Head(fields)[1]
             value == Head(fields)[2]
         IN  IF isEmpty(value) THEN Err("enter", fieldName)
             ELSE IF ~isValidNumber(value) THEN Err("must be a valid number", fieldName)
             ELSE validateRequiredFields(Tail(fields))

\* What a call that threw returns in place of a result.
NoOut == [none |-> TRUE]
Thrown(e) == [ok |-> FALSE, err |-> e, out |-> NoOut]
Returned(r) == [ok |-> TRUE, err |-> NoErr, out |-> r]

(***************************************************************************)
(* The global configuration (config.js).                                   *)
(***************************************************************************)
DirectionLONG == "long"
DirectionSHORT == "short"

\* 0.0002 and 0.0005
DefaultMakerFeeRate == Fin(2, 10000)
DefaultTakerFeeRate == Fin(5, 10000)

getDirection == direction
isLong == direction = DirectionLONG
isShort == direction = DirectionSHORT
getMakerFeeRate == makerFeeRate
getTakerFeeRate == takerFeeRate

(***************************************************************************)
(* The profit engine (profitCalculator.js).                                *)
(***************************************************************************)
calculateOpenFee(position, openPrice) ==
    LET makerRate == getMakerFeeRate
    IN  Mul(Mul(ToNumber(position), ToNumber(openPrice)), makerRate)

\* Mutant: the close fee charged at the maker rate.
calculateCloseFee_MakerRate(position, closePrice) ==
    LET takerRate == getMakerFeeRate
    IN  Mul(Mul(ToNumber(position), ToNumber(closePrice)), takerRate)

calculateCloseFee(position, closePrice) ==
    LET takerRate == getTakerFeeRate
    IN  Mul(Mul(ToNumber(position), ToNumber(closePrice)), takerRate)

\* The part the two directions share, given the gross profit.
ProfitResult(grossProfit, position, openPrice, currentPrice) ==
    LET openFee == calculateOpenFee(position, openPrice)
        closeFee == calculateCloseFee(position, currentPrice)
        totalFee == Add(openFee, closeFee)
        netProfit == Sub(grossProfit, totalFee)
        cost == Mul(ToNumber(position), ToNumber(openPrice))
        profitRate == IF Gt(cost, Zero) THEN Div(netProfit, cost) ELSE Zero
    IN  [profit |-> netProfit, profitRate |-> profitRate, totalFee |-> totalFee,
         openFee |-> openFee, closeFee |-> closeFee]

calculateLongProfit(position, openPrice, currentPrice) ==
    LET priceDiff == Sub(ToNumber(currentPrice), ToNumber(openPrice))
        grossProfit == Mul(ToNumber(position), priceDiff)
    IN  ProfitResult(grossProfit, position, openPrice, currentPrice)

calculateShortProfit(position, openPrice, currentPrice) ==
    LET priceDiff == Sub(ToNumber(openPrice), ToNumber(currentPrice))
        grossProfit == Mul(ToNumber(position), priceDiff)
    IN  ProfitResult(grossProfit, position, openPrice, currentPrice)

calculateProfit(leverage, openPrice, closePrice, quantity) ==
    LET validation == validateRequiredFields(<< <<"leverage", leverage>>,
                                                <<"openPrice", openPrice>>,
                                                <<"closePrice", closePrice>>,
                                                <<"quantity", quantity>> >>)
    IN  IF ~validation.ok THEN Thrown(validation)
        ELSE IF ~isPositive(leverage) THEN Thrown(Err("must be greater than 0", "leverage"))
        ELSE IF ~isPositive(openPrice) THEN Thrown(Err("must be greater than 0", "openPrice"))
        ELSE IF ~isPositive(closePrice) THEN Thrown(Err("must be greater than 0", "closePrice"))
        ELSE IF ~isPositive(quantity) THEN Thrown(Err("must be greater than 0", "quantity"))
        ELSE IF \/ isExtremeValue(leverage)
                \/ isExtremeValue(openPrice)
                \/ isExtremeValue(closePrice)
                \/ isExtremeValue(quantity)
             THEN Thrown(Err("input out of reasonable range", ""))
        ELSE IF isLong THEN Returned(calculateLongProfit(quantity, openPrice, closePrice))
        ELSE Returned(calculateShortProfit(quantity, openPrice, closePrice))

(***************************************************************************)
(* The liquidation engine (liquidationCalculator.js).                      *)
(***************************************************************************)
\* A parameter declared "= null": undefined becomes null.
DefaultNull(v) == IF v.t = "undefined" THEN Null ELSE v

\* customInitialMargin !== null && customInitialMargin > 0, on the parsed value
UseCustomMargin(customInitialMargin) ==
    customInitialMargin.t # "null" /\ Gt(ToNumber(customInitialMargin), Zero)

\* leverage, openPrice, quantity, addMargin are numbers; customInitialMargin
\* is null or a number.
InitialMargin(leverage, openPrice, quantity, customInitialMargin) ==
    IF UseCustomMargin(customInitialMargin) THEN ToNumber(customInitialMargin)
    ELSE LET positionValue == Mul(quantity, openPrice)
         IN  Div(positionValue, leverage)

calculateLongLiquidationPrice(leverage, openPrice, quantity, addMargin, customInitialMargin) ==
    LET initialMargin == InitialMargin(leverage, openPrice, quantity, customInitialMargin)
        totalMargin == Add(initialMargin, addMargin)
        liquidationPrice == Sub(openPrice, Div(totalMargin, quantity))
    IN  [liquidationPrice |-> liquidationPrice, initialMargin |-> initialMargin,
         totalMargin |-> totalMargin]

\* Mutant: the short price computed with the long formula.
calculateShortLiquidationPrice_Minus(leverage, openPrice, quantity, addMargin, customInitialMargin) ==
    calculateLongLiquidationPrice(leverage, openPrice, quantity, addMargin,
                                  customInitialMargin)

calculateShortLiquidationPrice(leverage, openPrice, quantity, addMargin, customInitialMargin) ==
    LET initialMargin == InitialMargin(leverage, openPrice, quantity, customInitialMargin)
        totalMargin == Add(initialMargin, addMargin)
        liquidationPrice == Add(openPrice, Div(totalMargin, quantity))
    IN  [liquidationPrice |-> liquidationPrice, initialMargin |-> initialMargin,
         totalMargin |-> totalMargin]

\* Mutant: 125 itself counts as out of range.
LeverageOutOfRange_Inclusive(leverage) ==
    Lt(ToNumber(leverage), Whole(1)) \/ Ge(ToNumber(leverage), Whole(125))

\* leverage < 1 || leverage > 125 on the raw argument
LeverageOutOfRange(leverage) ==
    Lt(ToNumber(leverage), Whole(1)) \/ Gt(ToNumber(leverage), Whole(125))

\* Mutant: a price of exactly 0 passes the check of the result.
LiquidationOutcome_AllowsZero(leverage, openPrice, quantity, addMargin, cim) ==
    LET parsedMargin == IF cim.t # "null" THEN Num(parseFloat(cim)) ELSE Null
        result == IF isLong
                  THEN calculateLongLiquidationPrice(
                           OrZero(parseFloat(leverage)), parseFloat(openPrice),
                           parseFloat(quantity), parseFloat(addMargin), parsedMargin)
                  ELSE calculateShortLiquidationPrice(
                           OrZero(parseFloat(leverage)), parseFloat(openPrice),
                           parseFloat(quantity), parseFloat(addMargin), parsedMargin)
    IN  IF \/ ~isValidNumber(Num(result.liquidationPrice))
           \/ Lt(result.liquidationPrice, Zero)
        THEN Thrown(Err("invalid result, check the inputs", ""))
        ELSE Returned([liquidationPrice |-> result.liquidationPrice,
                       initialMargin |-> result.initialMargin,
                       totalMargin |-> result.totalMargin,
                       isWarning |-> LeverageOutOfRange(leverage)])

\* The computation and the check of its result (lines 127-157).
LiquidationOutcome(leverage, openPrice, quantity, addMargin, cim) ==
    LET parsedMargin == IF cim.t # "null" THEN Num(parseFloat(cim)) ELSE Null
        result == IF isLong
                  THEN calculateLongLiquidationPrice(
                           OrZero(parseFloat(leverage)), parseFloat(openPrice),
                           parseFloat(quantity), parseFloat(addMargin), parsedMargin)
                  ELSE calculateShortLiquidationPrice(
                           OrZero(parseFloat(leverage)), parseFloat(openPrice),
                           parseFloat(quantity), parseFloat(addMargin), parsedMargin)
    IN  IF \/ ~isValidNumber(Num(result.liquidationPrice))
           \/ Le(result.liquidationPrice, Zero)
        THEN Thrown(Err("invalid result, check the inputs", ""))
        ELSE Returned([liquidationPrice |-> result.liquidationPrice,
                       initialMargin |-> result.initialMargin,
                       totalMargin |-> result.totalMargin,
                       isWarning |-> LeverageOutOfRange(leverage)])

calculateLiquidation(leverage, openPrice, quantity, addMargin, customInitialMargin) ==
    LET cim == DefaultNull(customInitialMargin)
        validation == validateRequiredFields(<< <<"openPrice", openPrice>>,
                                                <<"quantity", quantity>> >>)
    IN  IF ~validation.ok THEN Thrown(validation)
        ELSE IF /\ (cim.t = "null" \/ Le(ToNumber(cim), Zero))
                /\ (~isValidNumber(leverage) \/ ~isPositive(leverage))
             THEN Thrown(Err("enter", "leverage or initialMargin"))
        ELSE IF ~isPositive(openPrice) THEN Thrown(Err("must be greater than 0", "openPrice"))
        ELSE IF ~isPositive(quantity) THEN Thrown(Err("must be greater than 0", "quantity"))
        ELSE IF ~isNonNegative(addMargin) THEN Thrown(Err("must not be negative", "addMargin"))
        ELSE IF cim.t # "null" /\ ~isNonNegative(cim)
             THEN Thrown(Err("must not be negative", "initialMargin"))
        ELSE IF \/ isExtremeValue(openPrice)
                \/ isExtremeValue(quantity)
                \/ isExtremeValue(addMargin)
                \/ (cim.t # "null" /\ isExtremeValue(cim))
             THEN Thrown(Err("input out of reasonable range", ""))
        ELSE LiquidationOutcome(leverage, openPrice, quantity, addMargin, cim)

(***************************************************************************)
(* The position sizer (positionCalculator.js).                             *)
(***************************************************************************)
\* plannedLoss and stopLossAmount are numbers
calculatePositionByAmount(plannedLoss, stopLossAmount) ==
    LET quantity == Div(plannedLoss, stopLossAmount)
    IN  [quantity |-> quantity, stopLossAmount |-> stopLossAmount,
         calculationType |-> "amount"]

\* Mutant: the percentage used as a fraction without dividing by 100.
calculatePositionByPercent_NoScale(plannedLoss, stopLossPercent) ==
    LET percentDecimal == stopLossPercent
        positionValue == Div(plannedLoss, percentDecimal)
    IN  [positionValue |-> positionValue, stopLossPercent |-> stopLossPercent,
         calculationType |-> "percent"]

calculatePositionByPercent(plannedLoss, stopLossPercent) ==
    LET percentDecimal == Div(stopLossPercent, Whole(100))
        positionValue == Div(plannedLoss, percentDecimal)
    IN  [positionValue |-> positionValue, stopLossPercent |-> stopLossPercent,
         calculationType |-> "percent"]

\* plannedLoss / stopLossAmount as the floating-point division computes it
QuantityRounded(plannedLoss, stopLossAmount) == FDiv(plannedLoss, stopLossAmount)

\* Mutant: the percentage used as a fraction without dividing by 100.
PositionValueRounded_NoScale(plannedLoss, stopLossPercent) ==
    FDiv(plannedLoss, stopLossPercent)

\* plannedLoss / (stopLossPercent / 100) with both divisions rounded
PositionValueRounded(plannedLoss, stopLossPercent) ==
    LET percentDecimal == FDiv(stopLossPercent, Whole(100))
    IN  FDiv(plannedLoss, percentDecimal)

\* Mutant: the percentage is looked at first.
PositionMode_PercentFirst(plannedLoss, stopLossAmount, stopLossPercent) ==
    IF stopLossPercent.t # "null" /\ isValidNumber(stopLossPercent)
    THEN LET percent == parseFloat(stopLossPercent)
         IN  IF ~isPositive(Num(percent))
             THEN Thrown(Err("must be greater than 0", "stopLossPercent"))
             ELSE IF Gt(percent, Whole(100))
             THEN Thrown(Err("must not exceed 100%", "stopLossPercent"))
             ELSE Returned(calculatePositionByPercent(parseFloat(plannedLoss), percent))
    ELSE IF stopLossAmount.t # "null" /\ isValidNumber(stopLossAmount)
    THEN LET amount == parseFloat(stopLossAmount)
         IN  IF ~isPositive(Num(amount))
             THEN Thrown(Err("must be greater than 0", "stopLossAmount"))
             ELSE IF isExtremeValue(Num(amount))
             THEN Thrown(Err("out of reasonable range", "stopLossAmount"))
             ELSE Returned(calculatePositionByAmount(parseFloat(plannedLoss), amount))
    ELSE Thrown(Err("enter", "stopLossAmount or stopLossPercent"))

\* Mutant: an amount that is not positive is skipped, and the percentage is
\* tried next.
PositionMode_FallsThrough(plannedLoss, stopLossAmount, stopLossPercent) ==
    IF stopLossAmount.t # "null" /\ isPositive(stopLossAmount)
    THEN LET amount == parseFloat(stopLossAmount)
         IN  IF isExtremeValue(Num(amount))
             THEN Thrown(Err("out of reasonable range", "stopLossAmount"))
             ELSE Returned(calculatePositionByAmount(parseFloat(plannedLoss), amount))
    ELSE IF stopLossPercent.t # "null" /\ isValidNumber(stopLossPercent)
    THEN LET percent == parseFloat(stopLossPercent)
         IN  IF ~isPositive(Num(percent))
             THEN Thrown(Err("must be greater than 0", "stopLossPercent"))
             ELSE IF Gt(percent, Whole(100))
             THEN Thrown(Err("must not exceed 100%", "stopLossPercent"))
             ELSE Returned(calculatePositionByPercent(parseFloat(plannedLoss), percent))
    ELSE Thrown(Err("enter", "stopLossAmount or stopLossPercent"))

\* The choice of the mode and the mode's own checks (lines 72-107).
PositionMode(plannedLoss, stopLossAmount, stopLossPercent) ==
    IF stopLossAmount.t # "null" /\ isValidNumber(stopLossAmount)
    THEN LET amount == parseFloat(stopLossAmount)
         IN  IF ~isPositive(Num(amount))
             THEN Thrown(Err("must be greater than 0", "stopLossAmount"))
             ELSE IF isExtremeValue(Num(amount))
             THEN Thrown(Err("out of reasonable range", "stopLossAmount"))
             ELSE Returned(calculatePositionByAmount(parseFloat(plannedLoss), amount))
    ELSE IF stopLossPercent.t # "null" /\ isValidNumber(stopLossPercent)
    THEN LET percent == parseFloat(stopLossPercent)
         IN  IF ~isPositive(Num(percent))
             THEN Thrown(Err("must be greater than 0", "stopLossPercent"))
             ELSE IF Gt(percent, Whole(100))
             THEN Thrown(Err("must not exceed 100%", "stopLossPercent"))
             ELSE Returned(calculatePositionByPercent(parseFloat(plannedLoss), percent))
    ELSE Thrown(Err("enter", "stopLossAmount or stopLossPercent"))

calculatePosition(plannedLoss, stopLossAmount, stopLossPercent) ==
    LET validation == validateRequiredFields(<< <<"plannedLoss", plannedLoss>> >>)
    IN  IF ~validation.ok THEN Thrown(validation)
        ELSE IF ~isPositive(plannedLoss)
             THEN Thrown(Err("must be greater than 0", "plannedLoss"))
        ELSE IF isExtremeValue(plannedLoss)
             THEN Thrown(Err("out of reasonable range", "plannedLoss"))
        ELSE PositionMode(plannedLoss, DefaultNull(stopLossAmount),
                          DefaultNull(stopLossPercent))

(***************************************************************************)
(* The average price tracker (averagePriceCalculator.js).                  *)
(***************************************************************************)
\* Mutant: the record is pushed before the inputs are validated.
addPosition_PushesFirst(ps, quantity, price, now, makerRate) ==
    LET validation == validateRequiredFields(<< <<"quantity", quantity>>,
                                                <<"price", price>> >>)
        blank == [id |-> now, quantity |-> Zero, price |-> Zero, fee |-> Zero,
                  actualCost |-> Zero, totalCost |-> Zero]
    IN  IF validation.ok /\ isPositive(quantity) /\ isPositive(price)
           /\ ~isExtremeValue(quantity) /\ ~isExtremeValue(price)
        THEN LET fee == Mul(parseFloat(price), makerRate)
                 actualCost == Add(parseFloat(price), fee)
                 position == [id |-> now,
                              quantity |-> parseFloat(quantity),
                              price |-> parseFloat(price),
                              fee |-> fee,
                              actualCost |-> actualCost,
                              totalCost |-> Mul(parseFloat(quantity), actualCost)]
             IN  [res |-> Returned(position), positions |-> Append(ps, position)]
        ELSE [res |-> Thrown(Err("invalid", "")), positions |-> Append(ps, blank)]

\* addPosition on the collection ps at time now (Date.now()), makerRate being
\* what config.getMakerFeeRate() returns: the outcome and the collection
\* afterwards.
addPosition(ps, quantity, price, now, makerRate) ==
    LET validation == validateRequiredFields(<< <<"quantity", quantity>>,
                                                <<"price", price>> >>)
        fee == Mul(parseFloat(price), makerRate)
        actualCost == Add(parseFloat(price), fee)
        position == [id |-> now,
                     quantity |-> parseFloat(quantity),
                     price |-> parseFloat(price),
                     fee |-> fee,
                     actualCost |-> actualCost,
                     totalCost |-> Mul(parseFloat(quantity), actualCost)]
        Fail(e) == [res |-> Thrown(e), positions |-> ps]
    IN  IF ~validation.ok THEN Fail(validation)
        ELSE IF ~isPositive(quantity) THEN Fail(Err("must be greater than 0", "quantity"))
        ELSE IF ~isPositive(price) THEN Fail(Err("must be greater than 0", "price"))
        ELSE IF isExtremeValue(quantity) \/ isExtremeValue(price)
             THEN Fail(Err("input out of reasonable range", ""))
        ELSE [res |-> Returned(position), positions |-> Append(ps, position)]

removePosition(ps, id) == SelectSeq(ps, LAMBDA p : p.id # id)

getAllPositions == positions

RECURSIVE SumOf(_, _)
\* the running sum of field f over the records, as the forEach loop adds them
SumOf(ps, f) == IF ps = <<>> THEN Zero
                ELSE Add(SumOf(SubSeq(ps, 1, Len(ps) - 1), f), ps[Len(ps)][f])

\* Mutant: the average is taken per record, not per unit.
calculateAveragePrice_Unweighted(ps) ==
    IF Len(ps) = 0 THEN Thrown(Err("no records", ""))
    ELSE LET totalQuantity == SumOf(ps, "quantity")
             totalCost == SumOf(ps, "totalCost")
         IN  Returned([averagePrice |-> Div(totalCost, Whole(Len(ps))),
                       totalQuantity |-> totalQuantity,
                       totalCost |-> totalCost])

\* Mutant: an empty collection yields zeros instead of the error.
calculateAveragePrice_ZeroWhenEmpty(ps) ==
    LET totalQuantity == SumOf(ps, "quantity")
        totalCost == SumOf(ps, "totalCost")
        averagePrice == IF Gt(totalQuantity, Zero)
                        THEN Div(totalCost, totalQuantity) ELSE Zero
    IN  Returned([averagePrice |-> averagePrice,
                  totalQuantity |-> totalQuantity,
                  totalCost |-> totalCost])

calculateAveragePrice(ps) ==
    IF Len(ps) = 0 THEN Thrown(Err("no records", ""))
    ELSE LET totalQuantity == SumOf(ps, "quantity")
             totalCost == SumOf(ps, "totalCost")
             averagePrice == IF Gt(totalQuantity, Zero)
                             THEN Div(totalCost, totalQuantity) ELSE Zero
         IN  Returned([averagePrice |-> averagePrice,
                       totalQuantity |-> totalQuantity,
                       totalCost |-> totalCost])

\* Mutant: the recomputation rewrites the fee of each record and nothing else.
Recreate_FeeOnly(oldPositions, acc, nows, makerRate) ==
    [i \in DOMAIN oldPositions |->
        [oldPositions[i] EXCEPT !.fee = Mul(oldPositions[i].price, makerRate)]]

RECURSIVE Recreate(_, _, _, _)
\* oldPositions.forEach(pos => { try { addPosition(...) } catch ... }): acc is
\* the collection so far, nows[i] what Date.now() returns for the i-th record.
Recreate(oldPositions, acc, nows, makerRate) ==
    IF oldPositions = <<>> THEN acc
    ELSE LET pos == Head(oldPositions)
             r == addPosition(acc, Num(pos.quantity), Num(pos.price), Head(nows),
                              makerRate)
         IN  Recreate(Tail(oldPositions), r.positions, Tail(nows), makerRate)

\* Mutant: the listener reacts to the taker fee rate instead.
TrackerListener_WrongKey(key, ps, nows, makerRate) ==
    IF key = "takerFeeRate" THEN Recreate(ps, <<>>, nows, makerRate) ELSE ps

\* The listener initAveragePriceCalculator registers.
TrackerListener(key, ps, nows, makerRate) ==
    IF key = "makerFeeRate" THEN Recreate(ps, <<>>, nows, makerRate) ELSE ps

(***************************************************************************)
(* Listeners and notification (config.js).                                 *)
(***************************************************************************)
\* The listeners of the model: the tracker's, one that only logs (main.js),
\* and a callback that throws whenever it is called.
ListenerNames == {"tracker", "log", "faulty"}

\* One listener called for a change of key: the collection afterwards.
\* makerRate is the maker fee rate stored when the listener runs.
RunListener(listener, key, ps, nows, makerRate) ==
    IF listener = "tracker" THEN TrackerListener(key, ps, nows, makerRate) ELSE ps

RECURSIVE notifyListeners(_, _, _, _, _)
\* config.listeners.forEach(...) over ls, in order
notifyListeners(ls, key, ps, nows, makerRate) ==
    IF ls = <<>> THEN ps
    ELSE notifyListeners(Tail(ls), key,
                         RunListener(Head(ls), key, ps, nows, makerRate),
                         nows, makerRate)

\* listener(key, value) as notifyListeners calls it: what the listener was
\* given, the value stored under the key at that moment, and whether the
\* call threw.
Invocation(listener, key, value, stored) ==
    [listener |-> listener, key |-> key, value |-> value, stored |-> stored,
     raised |-> listener = "faulty"]

RECURSIVE Notified_NewestFirst(_, _, _, _)
\* Mutant: the listeners are called from the last registered to the first.
Notified_NewestFirst(ls, key, value, stored) ==
    IF ls = <<>> THEN <<>>
    ELSE Append(Notified_NewestFirst(Tail(ls), key, value, stored),
                Invocation(Head(ls), key, value, stored))

RECURSIVE Notified_StopsAtRaise(_, _, _, _)
\* Mutant: no try/catch, the first listener that throws ends the loop.
Notified_StopsAtRaise(ls, key, value, stored) ==
    IF ls = <<>> THEN <<>>
    ELSE IF Head(ls) = "faulty" THEN <<Invocation(Head(ls), key, value, stored)>>
    ELSE <<Invocation(Head(ls), key, value, stored)>>
             \o Notified_StopsAtRaise(Tail(ls), key, value, stored)

RECURSIVE Notified(_, _, _, _)
\* The calls config.listeners.forEach makes, in order; the catch block lets
\* the loop go on after a listener that throws.
Notified(ls, key, value, stored) ==
    IF ls = <<>> THEN <<>>
    ELSE <<Invocation(Head(ls), key, value, stored)>>
             \o Notified(Tail(ls), key, value, stored)

\* getAllConfig(): the snapshot resetConfig hands to the listeners.
getAllConfig(d, maker, taker) ==
    [direction |-> d, makerFeeRate |-> maker, takerFeeRate |-> taker,
     totalFeeRate |-> Add(maker, taker)]

\* A listener that keeps the maker fee rate at or below CapRate: called with
\* a higher rate, it calls config.setMakerFeeRate(CapPercent) from inside the
\* notification.
CapPercent == Num(Whole(1))
CapRate == Div(parseFloat(CapPercent), Whole(100))

RECURSIVE NestedNotified(_, _, _, _)
\* notifyListeners('makerFeeRate', value) from the listener Head(ls) on, when
\* the registered listeners are all and the rate stored is stored.  The
\* "capper" sets the rate from inside its call: the setter stores CapRate and
\* runs a whole notification of its own, and only then does the outer forEach
\* go on to the next listener, with the value it was started with.
NestedNotified(ls, all, value, stored) ==
    IF ls = <<>> THEN [trace |-> <<>>, stored |-> stored]
    ELSE LET call == Invocation(Head(ls), "makerFeeRate", value, stored)
             inner == IF Head(ls) = "capper" /\ Gt(value, CapRate)
                      THEN NestedNotified(all, all, CapRate, CapRate)
                      ELSE [trace |-> <<>>, stored |-> stored]
             rest == NestedNotified(Tail(ls), all, value, inner.stored)
         IN  [trace |-> <<call>> \o inner.trace \o rest.trace,
              stored |-> rest.stored]

\* removeConfigListener(listener) on the array arr: indexOf and splice.
removeConfigListener(arr, l) ==
    LET found == {i \in DOMAIN arr : arr[i] = l}
    IN  IF found = {} THEN arr
        ELSE LET index == CHOOSE i \in found : \A j \in found : i <= j
             IN  SubSeq(arr, 1, index - 1) \o SubSeq(arr, index + 1, Len(arr))

RECURSIVE LiveNotified(_, _, _, _, _, _)
\* config.listeners.forEach(...) from index k on, over the array itself:
\* forEach reads the length len once, then visits the indices below it that
\* the array still has, reading each element when it gets there.  A "once"
\* listener calls removeConfigListener on itself, which shifts the elements
\* behind it one place to the front.
LiveNotified(arr, k, len, key, value, stored) ==
    IF k > len THEN [trace |-> <<>>, listeners |-> arr]
    ELSE IF k > Len(arr) THEN LiveNotified(arr, k + 1, len, key, value, stored)
    ELSE LET call == Invocation(arr[k], key, value, stored)
             after == IF arr[k] = "once" THEN removeConfigListener(arr, "once")
                      ELSE arr
             rest == LiveNotified(after, k + 1, len, key, value, stored)
         IN  [trace |-> <<call>> \o rest.trace, listeners |-> rest.listeners]

\* The values Date.now() may return for n consecutive reads from time t on.
Clocks(n, t) ==
    {c \in [1..n -> t..MaxClock] : \A i \in 1..n : i > 1 => c[i - 1] <= c[i]}

\* The time after the reads c, which began at time t.
After(c, t) == IF Len(c) = 0 THEN t ELSE c[Len(c)]

(***************************************************************************)
(* Arguments offered to the operations.                                    *)
(***************************************************************************)
\* Values no numeric field accepts: missing, not a number, not positive, or
\* above the limit.
Invalids == {Null, Undefined, Empty, StrAbc, StrPrefix, StrHex, Num(NaN), Num(Inf),
             Num(Huge), Num(Zero), Num(Whole(-1))}

\* How many of the arguments lie outside the regular values of their field.
BadCount(args, regular) == Cardinality({i \in DOMAIN args : args[i] \notin regular[i]})

ProfitLeverages == {Num(Whole(10)), Str(Whole(1))}
ProfitOpenPrices == {Num(Whole(100)), Str(Whole(50))}
ProfitClosePrices == {Num(Whole(110)), Str(Fin(99, 2))}
ProfitQuantities == {Num(Whole(2)), Str(Fin(1, 2))}

\* The calls of calculateProfit: at most MaxBad invalid arguments in one call.
ProfitCalls ==
    {args \in {<<l, o, c, q>> : l \in Invalids \cup ProfitLeverages,
                                o \in Invalids \cup ProfitOpenPrices,
                                c \in Invalids \cup ProfitClosePrices,
                                q \in Invalids \cup ProfitQuantities} :
        BadCount(args, <<ProfitLeverages, ProfitOpenPrices, ProfitClosePrices,
                         ProfitQuantities>>) <= MaxBad}

LiqLeverages == {Num(Fin(1, 2)), Num(Whole(1)), Num(Whole(10)), Str(Whole(125)),
                 Num(Whole(200))}
LiqOpenPrices == {Num(Whole(100))}
LiqQuantities == {Num(Whole(1)), Str(Whole(2))}
LiqAddMargins == {Num(Zero), Num(Whole(10)), Str(Whole(150))}
LiqCustomMargins == {Null, Undefined, Num(Zero), Num(Whole(5)), Str(Whole(250))}

\* 1 when v lies outside the regular values of its field, else 0.
Irregular(v, regular) == IF v \in regular THEN 0 ELSE 1

PlannedLosses == {Num(Whole(100)), Str(Whole(50))}
StopLossAmounts == {Num(Fin(1, 2)), Str(Whole(4))}
StopLossPercents == {Num(Whole(10)), Str(Whole(100)), Num(Whole(101))}

\* One invalid value of each kind: missing, non-numeric, not positive, extreme.
FewInvalids == {Null, StrAbc, Num(Zero), Num(Huge)}
AddQuantities == {Num(Whole(1)), Str(Whole(2))}
AddPrices == {Num(Whole(100)), Str(Whole(200))}
\* Rates offered while records exist: non-numeric, negative, and 1 (percent).
TrackerRates == {StrAbc, Num(Whole(-1)), Str(Whole(1))}

\* Rates offered to the tracker without its listener: rejected, 0 and 1.
AverageRates == {StrAbc, Num(Zero), Str(Whole(1))}

\* Arguments offered to the fee rate setters on their own: missing,
\* non-numeric, a number followed by letters, hexadecimal, negative, 0, 1.
ConfigRates == {Null, StrAbc, StrPrefix, StrHex, Num(Whole(-1)), Num(Zero),
                Str(Whole(1))}

\* The calls offered to the three calculators while records exist: each
\* argument is one of FewInvalids or a regular value.
FewProfitCalls ==
    {<<l, o, c, q>> : l \in FewInvalids \cup {Num(Whole(10))},
                      o \in FewInvalids \cup {Num(Whole(100))},
                      c \in FewInvalids \cup {Str(Whole(110))},
                      q \in FewInvalids \cup {Num(Whole(2))}}
FewLiquidationCalls ==
    {<<l, o, q, a, c>> : l \in {Null, StrAbc, Num(Zero), Num(Whole(10))},
                         o \in FewInvalids \cup {Num(Whole(100))},
                         q \in {StrAbc, Num(Huge), Num(Whole(1))},
                         a \in {StrAbc, Num(Whole(-1)), Num(Zero), Num(Whole(150))},
                         c \in {Null, StrAbc, Num(Whole(-1)), Num(Whole(5))}}
FewPositionCalls ==
    {<<r, a, p>> : r \in FewInvalids \cup {Num(Whole(100))},
                   a \in FewInvalids \cup {Str(Whole(4))},
                   p \in FewInvalids \cup {Num(Whole(10)), Num(Whole(101))}}

\* Planned losses, stop-loss amounts and prices of the round trip; all are
\* representable with MantissaBits bits.
RoundTripLosses == {Whole(10), Whole(12), Whole(20), Whole(24), Whole(25)}
RoundTripAmounts == {Whole(1), Whole(2), Whole(3), Whole(5), Whole(7)}
RoundTripPrices == {Whole(3), Whole(5), Whole(7), Whole(10), Whole(20), Whole(28)}

\* Percentages offered to the fee rate setters.
\* The listeners and the rates of the nested notification.
NestedListeners == {"log", "capper"}
NestedRates == {StrAbc, Num(Zero), Str(Whole(1)), Num(Whole(5))}

\* The listeners of a notification that loses listeners on the way.
LiveListeners == {"log", "once", "faulty"}

RateInputs == {Null, StrAbc, Num(Whole(-1)), Num(Zero), Str(Whole(1))}
DirectionInputs == {DirectionLONG, DirectionSHORT, "sideways"}

(***************************************************************************)
(* The state machine.  Every operation is one handler of the page's event  *)
(* loop: it runs to completion and leaves the record of the call in last;  *)
(* the next handler starts once the loop is idle again.                    *)
(***************************************************************************)
\* The record of the last call: the operation, its arguments, whether it
\* returned (ok) or threw (err), and what it returned.
Call(op, args, r) == [op |-> op, args |-> args, ok |-> r.ok, err |-> r.err, out |-> r.out]

IdleCall == Call("idle", <<>>, Returned(NoOut))
Idle == last.op = "idle"

Init ==
    /\ direction = DirectionLONG
    /\ makerFeeRate = DefaultMakerFeeRate
    /\ takerFeeRate = DefaultTakerFeeRate
    /\ listeners = <<>>
    /\ positions = <<>>
    /\ clock = 0
    /\ last = IdleCall
    /\ notified = <<>>

\* The handler has returned to the event loop.
Return ==
    /\ ~Idle
    /\ last' = IdleCall
    /\ notified' = <<>>
    /\ UNCHANGED <<direction, makerFeeRate, takerFeeRate, listeners, positions, clock>>

\* Time passes between two handlers.
Tick ==
    /\ Idle
    /\ clock < MaxClock
    /\ clock' = clock + 1
    /\ UNCHANGED <<direction, makerFeeRate, takerFeeRate, listeners, positions, last,
                   notified>>

SetDirection(d) ==
    /\ Idle
    /\ IF d # DirectionLONG /\ d # DirectionSHORT
       THEN /\ last' = Call("setDirection", <<d>>, Returned([accepted |-> FALSE]))
            /\ UNCHANGED <<direction, positions, notified>>
       ELSE /\ direction' = d
            /\ notified' = Notified(listeners, "direction", d, direction')
            /\ positions' = notifyListeners(listeners, "direction", positions, <<>>,
                                            makerFeeRate)
            /\ last' = Call("setDirection", <<d>>, Returned([accepted |-> TRUE]))
    /\ UNCHANGED <<makerFeeRate, takerFeeRate, listeners, clock>>

SetMakerFeeRate(rate) ==
    /\ Idle
    /\ LET rateValue == parseFloat(rate)
       IN  IF NumIsNaN(rateValue) \/ Lt(rateValue, Zero)
           THEN /\ last' = Call("setMakerFeeRate", <<rate>>, Returned([accepted |-> FALSE]))
                /\ UNCHANGED <<direction, makerFeeRate, takerFeeRate, listeners,
                               positions, clock, notified>>
           ELSE \E nows \in Clocks(Len(positions), clock) :
                /\ makerFeeRate' = Div(rateValue, Whole(100))
                /\ notified' = Notified(listeners, "makerFeeRate", makerFeeRate',
                                        makerFeeRate')
                /\ positions' = notifyListeners(listeners, "makerFeeRate", positions,
                                                nows, makerFeeRate')
                /\ clock' = IF \E i \in DOMAIN listeners : listeners[i] = "tracker"
                            THEN After(nows, clock) ELSE clock
                /\ last' = Call("setMakerFeeRate", <<rate>>, Returned([accepted |-> TRUE]))
                /\ UNCHANGED <<direction, takerFeeRate, listeners>>

\* Mutant: a negative taker fee rate is stored.
SetTakerFeeRate_AcceptsNegative(rate) ==
    /\ Idle
    /\ LET rateValue == parseFloat(rate)
       IN  IF NumIsNaN(rateValue)
           THEN /\ last' = Call("setTakerFeeRate", <<rate>>, Returned([accepted |-> FALSE]))
                /\ UNCHANGED <<direction, makerFeeRate, takerFeeRate, listeners,
                               positions, clock, notified>>
           ELSE /\ takerFeeRate' = Div(rateValue, Whole(100))
                /\ notified' = Notified(listeners, "takerFeeRate", takerFeeRate',
                                        takerFeeRate')
                /\ positions' = notifyListeners(listeners, "takerFeeRate", positions,
                                                <<>>, makerFeeRate)
                /\ last' = Call("setTakerFeeRate", <<rate>>, Returned([accepted |-> TRUE]))
                /\ UNCHANGED <<direction, makerFeeRate, listeners, clock>>

SetTakerFeeRate(rate) ==
    /\ Idle
    /\ LET rateValue == parseFloat(rate)
       IN  IF NumIsNaN(rateValue) \/ Lt(rateValue, Zero)
           THEN /\ last' = Call("setTakerFeeRate", <<rate>>, Returned([accepted |-> FALSE]))
                /\ UNCHANGED <<direction, makerFeeRate, takerFeeRate, listeners,
                               positions, clock, notified>>
           ELSE /\ takerFeeRate' = Div(rateValue, Whole(100))
                /\ notified' = Notified(listeners, "takerFeeRate", takerFeeRate',
                                        takerFeeRate')
                /\ positions' = notifyListeners(listeners, "takerFeeRate", positions,
                                                <<>>, makerFeeRate)
                /\ last' = Call("setTakerFeeRate", <<rate>>, Returned([accepted |-> TRUE]))
                /\ UNCHANGED <<direction, makerFeeRate, listeners, clock>>

ResetConfig ==
    /\ Idle
    /\ direction' = DirectionLONG
    /\ makerFeeRate' = DefaultMakerFeeRate
    /\ takerFeeRate' = DefaultTakerFeeRate
    /\ positions' = notifyListeners(listeners, "reset", positions, <<>>, makerFeeRate')
    /\ notified' = LET all == getAllConfig(direction', makerFeeRate', takerFeeRate')
                   IN  Notified(listeners, "reset", all, all)
    /\ last' = Call("resetConfig", <<>>, Returned(NoOut))
    /\ UNCHANGED <<listeners, clock>>

\* addConfigListener(listener) for the function named l.  The tracker's
\* listener is registered by initAveragePriceCalculator, which the page
\* calls once.
AddConfigListener(l) ==
    /\ Idle
    /\ Len(listeners) < MaxListeners
    /\ l = "tracker" => \A i \in DOMAIN listeners : listeners[i] # "tracker"
    /\ listeners' = Append(listeners, l)
    /\ last' = Call("addConfigListener", <<l>>, Returned(NoOut))
    /\ UNCHANGED <<direction, makerFeeRate, takerFeeRate, positions, clock, notified>>

\* removeConfigListener(listener): the first registration of l, if any.
RemoveConfigListener(l) ==
    /\ Idle
    /\ LET found == {i \in DOMAIN listeners : listeners[i] = l}
       IN  IF found = {} THEN UNCHANGED listeners
           ELSE LET index == CHOOSE i \in found : \A j \in found : i <= j
                IN  listeners' = SubSeq(listeners, 1, index - 1)
                                   \o SubSeq(listeners, index + 1, Len(listeners))
    /\ last' = Call("removeConfigListener", <<l>>, Returned(NoOut))
    /\ UNCHANGED <<direction, makerFeeRate, takerFeeRate, positions, clock, notified>>

CalculateProfit ==
    /\ Idle
    /\ \E args \in ProfitCalls :
          last' = Call("calculateProfit", args,
                       calculateProfit(args[1], args[2], args[3], args[4]))
    /\ UNCHANGED <<direction, makerFeeRate, takerFeeRate, listeners, positions, clock,
                   notified>>

\* setMakerFeeRate(rate) when the listeners registered are the logging one
\* and the "capper": the notification may set the rate again before it ends.
SetMakerFeeRateNested(rate) ==
    /\ Idle
    /\ \A i \in DOMAIN listeners : listeners[i] \in NestedListeners
    /\ LET rateValue == parseFloat(rate)
       IN  IF NumIsNaN(rateValue) \/ Lt(rateValue, Zero)
           THEN /\ last' = Call("setMakerFeeRate", <<rate>>, Returned([accepted |-> FALSE]))
                /\ UNCHANGED <<makerFeeRate, notified>>
           ELSE LET run == NestedNotified(listeners, listeners,
                                          Div(rateValue, Whole(100)),
                                          Div(rateValue, Whole(100)))
                IN  /\ makerFeeRate' = run.stored
                    /\ notified' = run.trace
                    /\ last' = Call("setMakerFeeRate", <<rate>>,
                                    Returned([accepted |-> TRUE]))
    /\ UNCHANGED <<direction, takerFeeRate, listeners, positions, clock>>

\* setDirection(d) when the listeners registered are the logging one and
\* "once" listeners, which leave the array while it is being walked.
SetDirectionLive(d) ==
    /\ Idle
    /\ \A i \in DOMAIN listeners : listeners[i] \in LiveListeners
    /\ IF d # DirectionLONG /\ d # DirectionSHORT
       THEN /\ last' = Call("setDirection", <<d>>, Returned([accepted |-> FALSE]))
            /\ UNCHANGED <<direction, listeners, notified>>
       ELSE LET run == LiveNotified(listeners, 1, Len(listeners), "direction", d, d)
            IN  /\ direction' = d
                /\ listeners' = run.listeners
                /\ notified' = run.trace
                /\ last' = Call("setDirection", <<d>>, Returned([accepted |-> TRUE]))
    /\ UNCHANGED <<makerFeeRate, takerFeeRate, positions, clock>>

\* The calls offered have at most MaxBad irregular arguments.  The leverage,
\* which no check bounds, stays within the limit.
CalculateLiquidation ==
    /\ Idle
    /\ \E l \in (Invalids \ {Num(Huge)}) \cup LiqLeverages,
          o \in Invalids \cup LiqOpenPrices :
        /\ Irregular(l, LiqLeverages) + Irregular(o, LiqOpenPrices) <= MaxBad
        /\ \E q \in Invalids \cup LiqQuantities :
           /\ Irregular(l, LiqLeverages) + Irregular(o, LiqOpenPrices)
                + Irregular(q, LiqQuantities) <= MaxBad
           /\ \E a \in Invalids \cup LiqAddMargins :
              /\ Irregular(l, LiqLeverages) + Irregular(o, LiqOpenPrices)
                   + Irregular(q, LiqQuantities) + Irregular(a, LiqAddMargins) <= MaxBad
              /\ \E c \in Invalids \cup LiqCustomMargins :
                 /\ Irregular(l, LiqLeverages) + Irregular(o, LiqOpenPrices)
                      + Irregular(q, LiqQuantities) + Irregular(a, LiqAddMargins)
                      + Irregular(c, LiqCustomMargins) <= MaxBad
                 /\ last' = Call("calculateLiquidation", <<l, o, q, a, c>>,
                                 calculateLiquidation(l, o, q, a, c))
    /\ UNCHANGED <<direction, makerFeeRate, takerFeeRate, listeners, positions, clock,
                   notified>>

CalculatePosition ==
    /\ Idle
    /\ \E plannedLoss \in Invalids \cup PlannedLosses,
          stopLossAmount \in Invalids \cup StopLossAmounts,
          stopLossPercent \in Invalids \cup StopLossPercents :
          last' = Call("calculatePosition",
                       <<plannedLoss, stopLossAmount, stopLossPercent>>,
                       calculatePosition(plannedLoss, stopLossAmount, stopLossPercent))
    /\ UNCHANGED <<direction, makerFeeRate, takerFeeRate, listeners, positions, clock,
                   notified>>

\* One call calculateProfit(args).
ProfitCall(args) ==
    /\ Idle
    /\ last' = Call("calculateProfit", args,
                    calculateProfit(args[1], args[2], args[3], args[4]))
    /\ UNCHANGED <<direction, makerFeeRate, takerFeeRate, listeners, positions, clock,
                   notified>>

\* One call calculateLiquidation(args).
LiquidationCall(args) ==
    /\ Idle
    /\ last' = Call("calculateLiquidation", args,
                    calculateLiquidation(args[1], args[2], args[3], args[4], args[5]))
    /\ UNCHANGED <<direction, makerFeeRate, takerFeeRate, listeners, positions, clock,
                   notified>>

\* One call calculatePosition(args).
PositionCall(args) ==
    /\ Idle
    /\ last' = Call("calculatePosition", args,
                    calculatePosition(args[1], args[2], args[3]))
    /\ UNCHANGED <<direction, makerFeeRate, takerFeeRate, listeners, positions, clock,
                   notified>>

\* calculatePosition(plannedLoss, stopLossAmount, null) and
\* calculatePosition(plannedLoss, null, stopLossAmount / price * 100), with
\* the arithmetic rounded: the quantity of the first and the positionValue of
\* the second, which raises when the percentage exceeds 100.
RoundTrip ==
    /\ Idle
    /\ \E plannedLoss \in RoundTripLosses, stopLossAmount \in RoundTripAmounts,
          price \in RoundTripPrices :
          LET stopLossPercent == FMul(FDiv(stopLossAmount, price), Whole(100))
              r == IF Gt(stopLossPercent, Whole(100))
                   THEN Thrown(Err("must not exceed 100%", "stopLossPercent"))
                   ELSE Returned(
                          [quantity |-> QuantityRounded(plannedLoss, stopLossAmount),
                           stopLossPercent |-> stopLossPercent,
                           positionValue |->
                               PositionValueRounded(plannedLoss, stopLossPercent)])
          IN  last' = Call("roundTrip", <<plannedLoss, stopLossAmount, price>>, r)
    /\ UNCHANGED <<direction, makerFeeRate, takerFeeRate, listeners, positions, clock,
                   notified>>

\* addBtn click: addPosition(quantity, price) at the current time.
AddPosition ==
    /\ Idle
    /\ Len(positions) < MaxPositions
    /\ \E quantity \in FewInvalids \cup AddQuantities,
          price \in FewInvalids \cup AddPrices :
          LET r == addPosition(positions, quantity, price, clock, getMakerFeeRate)
          IN  /\ positions' = r.positions
              /\ last' = Call("addPosition", <<quantity, price>>, r.res)
    /\ UNCHANGED <<direction, makerFeeRate, takerFeeRate, listeners, clock, notified>>

RemovePosition ==
    /\ Idle
    /\ \E id \in 0..MaxClock :
          /\ positions' = removePosition(positions, id)
          /\ last' = Call("removePosition", <<id>>, Returned(NoOut))
    /\ UNCHANGED <<direction, makerFeeRate, takerFeeRate, listeners, clock, notified>>

ClearPositions ==
    /\ Idle
    /\ positions' = <<>>
    /\ last' = Call("clearPositions", <<>>, Returned(NoOut))
    /\ UNCHANGED <<direction, makerFeeRate, takerFeeRate, listeners, clock, notified>>

CalculateAveragePrice ==
    /\ Idle
    /\ last' = Call("calculateAveragePrice", <<>>, calculateAveragePrice(positions))
    /\ UNCHANGED <<direction, makerFeeRate, takerFeeRate, listeners, positions, clock,
                   notified>>

NextProfit ==
    \/ \E d \in DirectionInputs : SetDirection(d)
    \/ \E rate \in RateInputs : SetMakerFeeRate(rate)
    \/ \E rate \in RateInputs : SetTakerFeeRate(rate)
    \/ ResetConfig
    \/ CalculateProfit
    \/ Return

\* The profit engine under every configuration the setters produce.
SpecProfit == Init /\ [][NextProfit]_vars

NextLiquidation ==
    \/ \E d \in DirectionInputs : SetDirection(d)
    \/ ResetConfig
    \/ CalculateLiquidation
    \/ Return

\* The liquidation engine under both directions.
SpecLiquidation == Init /\ [][NextLiquidation]_vars

NextPosition ==
    \/ \E d \in DirectionInputs : SetDirection(d)
    \/ CalculatePosition
    \/ Return

\* The position sizer.
SpecPosition == Init /\ [][NextPosition]_vars

NextTracker ==
    \/ AddConfigListener("tracker")
    \/ AddPosition
    \/ RemovePosition
    \/ ClearPositions
    \/ CalculateAveragePrice
    \/ \E rate \in TrackerRates : SetMakerFeeRate(rate)
    \/ ResetConfig
    \/ Tick
    \/ Return

\* The average price tracker, with and without its configuration listener.
SpecTracker == Init /\ [][NextTracker]_vars

NextEngines ==
    \/ \E d \in DirectionInputs : SetDirection(d)
    \/ AddPosition
    \/ ClearPositions
    \/ \E args \in FewProfitCalls : ProfitCall(args)
    \/ \E args \in FewLiquidationCalls : LiquidationCall(args)
    \/ \E args \in FewPositionCalls : PositionCall(args)
    \/ Return

\* The four engines side by side, called with records in the collection.
SpecEngines == Init /\ [][NextEngines]_vars

NextRoundTrip ==
    \/ RoundTrip
    \/ Return

\* The two sizing modes on matching inputs, in rounded arithmetic.
SpecRoundTrip == Init /\ [][NextRoundTrip]_vars

NextConfig ==
    \/ \E l \in ListenerNames : AddConfigListener(l)
    \/ \E l \in ListenerNames \ {"tracker"} : RemoveConfigListener(l)
    \/ \E d \in DirectionInputs : SetDirection(d)
    \/ \E rate \in ConfigRates : SetMakerFeeRate(rate)
    \/ \E rate \in ConfigRates : SetTakerFeeRate(rate)
    \/ ResetConfig
    \/ Return

\* The global configuration and its listeners.
SpecConfig == Init /\ [][NextConfig]_vars

NextNested ==
    \/ \E l \in NestedListeners : AddConfigListener(l)
    \/ \E l \in NestedListeners : RemoveConfigListener(l)
    \/ \E rate \in NestedRates : SetMakerFeeRateNested(rate)
    \/ Return

\* The configuration with a listener that sets the rate while it is notified.
SpecNested == Init /\ [][NextNested]_vars

NextLive ==
    \/ \E l \in LiveListeners : AddConfigListener(l)
    \/ \E l \in LiveListeners : RemoveConfigListener(l)
    \/ \E d \in DirectionInputs : SetDirectionLive(d)
    \/ Return

\* The configuration with listeners that remove themselves when called.
SpecLive == Init /\ [][NextLive]_vars

NextAverage ==
    \/ AddPosition
    \/ RemovePosition
    \/ ClearPositions
    \/ CalculateAveragePrice
    \/ \E rate \in AverageRates : SetMakerFeeRate(rate)
    \/ Return

\* The tracker on its own: records added at several rates, and the average.
SpecAverage == Init /\ [][NextAverage]_vars

\* The page once DOMContentLoaded has been handled: initApp has registered
\* the tracker's listener and setupConfigListeners the logging one.  (The
\* listeners of the other engines only refresh the page.)
InitApp ==
    /\ direction = DirectionLONG
    /\ makerFeeRate = DefaultMakerFeeRate
    /\ takerFeeRate = DefaultTakerFeeRate
    /\ listeners = <<"tracker", "log">>
    /\ positions = <<>>
    /\ clock = 0
    /\ last = IdleCall
    /\ notified = <<>>

NextApp ==
    \/ \E d \in DirectionInputs : SetDirection(d)
    \/ \E rate \in TrackerRates : SetMakerFeeRate(rate)
    \/ \E rate \in TrackerRates : SetTakerFeeRate(rate)
    \/ ResetConfig
    \/ AddPosition
    \/ RemovePosition
    \/ ClearPositions
    \/ Tick
    \/ Return

\* The tracker and the configuration of the initialised page.
SpecApp == InitApp /\ [][NextApp]_vars

(***************************************************************************)
(* The profit engine's claims.                                             *)
(***************************************************************************)
\* The vocabulary of the claims, stated on the values themselves.
\* v is null, undefined or the empty string
Missing(v) == v.t \in {"null", "undefined", "empty"}
\* v is present and reads as a finite number
Numeric(v) == ~Missing(v) /\ v.pf.k # "nan" /\ v.nb.k \in {"fin", "huge"}
StrictlyPositive(v) == Numeric(v) /\ Gt(v.pf, Zero)
NonNegative(v) == Numeric(v) /\ Ge(v.pf, Zero)
\* |v| > 1e15
Extreme(v) == Numeric(v) /\ v.pf.k \in {"huge", "inf"}

ProfitFieldNames == <<"leverage", "openPrice", "closePrice", "quantity">>

\* v is a valid, strictly positive, non-extreme number
ValidPositive(v) == StrictlyPositive(v) /\ ~Extreme(v)

\* C1: for valid, strictly positive, non-extreme arguments calculateProfit
\* returns openFee = quantity*openPrice*makerFeeRate, closeFee =
\* quantity*closePrice*takerFeeRate, totalFee = openFee + closeFee, profit =
\* quantity*(closePrice-openPrice) - totalFee under LONG and
\* quantity*(openPrice-closePrice) - totalFee under SHORT, and profitRate =
\* profit/(quantity*openPrice), with the direction and rates stored in the
\* configuration at the call, whatever the leverage (scenario 1 included).
C1_ProfitFormula ==
    (last.op = "calculateProfit" /\ \A i \in 1..4 : ValidPositive(last.args[i])) =>
        LET openPrice == parseFloat(last.args[2])
            closePrice == parseFloat(last.args[3])
            quantity == parseFloat(last.args[4])
            openFee == Mul(Mul(quantity, openPrice), makerFeeRate)
            closeFee == Mul(Mul(quantity, closePrice), takerFeeRate)
            totalFee == Add(openFee, closeFee)
            profit == IF direction = DirectionLONG
                      THEN Sub(Mul(quantity, Sub(closePrice, openPrice)), totalFee)
                      ELSE Sub(Mul(quantity, Sub(openPrice, closePrice)), totalFee)
        IN  /\ last.ok
            /\ last.out = [profit |-> profit,
                           profitRate |-> Div(profit, Mul(quantity, openPrice)),
                           totalFee |-> totalFee,
                           openFee |-> openFee,
                           closeFee |-> closeFee]
            /\ (/\ last.args = <<Num(Whole(10)), Num(Whole(100)), Num(Whole(110)),
                                 Num(Whole(2))>>
                /\ direction = DirectionLONG
                /\ makerFeeRate = DefaultMakerFeeRate
                /\ takerFeeRate = DefaultTakerFeeRate)
               => /\ last.out.openFee = Fin(4, 100)
                  /\ last.out.closeFee = Fin(11, 100)
                  /\ last.out.profit = Fin(1985, 100)
                  /\ last.out.profitRate = Fin(9925, 100000)

\* A SHORT call after the maker fee rate was set to 1%: 2 units opened at
\* 100 and closed at 110 lose 20 + 2 + 0.11.
C1_Witness ==
    /\ last.op = "calculateProfit"
    /\ last.args = <<Str(Whole(1)), Num(Whole(100)), Num(Whole(110)), Num(Whole(2))>>
    /\ direction = DirectionSHORT
    /\ makerFeeRate = Fin(1, 100)
    /\ last.ok
    /\ last.out.profit = Fin(-2211, 100)

\* v is missing, non-numeric, not strictly positive, or extreme
Offending(v) == ~StrictlyPositive(v) \/ Extreme(v)

\* The names of the offending fields of a call of calculateProfit.
OffendingFields(args) == {ProfitFieldNames[i] : i \in {j \in 1..4 : Offending(args[j])}}

\* C6 as claimed: calculateProfit raises whenever a field is missing,
\* non-numeric, not strictly positive or extreme, and the error names the
\* offending field.
C6_Original ==
    (last.op = "calculateProfit" /\ OffendingFields(last.args) # {}) =>
        /\ ~last.ok
        /\ last.out = NoOut
        /\ last.err.field \in OffendingFields(last.args)

\* C6 amended: calculateProfit raises, returning no result, whenever a field
\* is missing, non-numeric, not strictly positive or extreme; the error names
\* an offending field when some field is missing, non-numeric or not
\* strictly positive, and is the one message "input out of reasonable range",
\* naming no field, when the only offence is an extreme value.
C6_RaisesOnBadField ==
    (last.op = "calculateProfit" /\ OffendingFields(last.args) # {}) =>
        /\ ~last.ok
        /\ last.out = NoOut
        /\ IF \E i \in 1..4 : ~StrictlyPositive(last.args[i])
           THEN /\ last.err.field \in OffendingFields(last.args)
                /\ ~StrictlyPositive(last.args[CHOOSE i \in 1..4 :
                                            ProfitFieldNames[i] = last.err.field])
           ELSE last.err = Err("input out of reasonable range", "")

\* An extreme open price among otherwise valid arguments: the error raised
\* names no field.
C6_Witness ==
    /\ last.op = "calculateProfit"
    /\ last.args = <<Num(Whole(10)), Num(Huge), Num(Whole(110)), Num(Whole(2))>>
    /\ ~last.ok
    /\ last.err.field = ""

(***************************************************************************)
(* The liquidation engine's claims.                                        *)
(***************************************************************************)
\* v is a valid, non-negative, non-extreme number
ValidNonNegative(v) == NonNegative(v) /\ ~Extreme(v)

\* customInitialMargin is absent (null or undefined)
Absent(v) == v.t \in {"null", "undefined"}

\* customInitialMargin is provided and > 0
CustomGiven(v) == ~Absent(v) /\ ValidNonNegative(v) /\ Gt(parseFloat(v), Zero)

\* customInitialMargin is absent or 0
CustomAbsentOrZero(v) == Absent(v) \/ (ValidNonNegative(v) /\ parseFloat(v) = Zero /\ ToNumber(v) = Zero)

\* The arguments <<leverage, openPrice, quantity, addMargin,
\* customInitialMargin>> are valid inputs of calculateLiquidation.
LiqValidInputs(args) ==
    /\ ValidPositive(args[2])
    /\ ValidPositive(args[3])
    /\ ValidNonNegative(args[4])
    /\ \/ CustomGiven(args[5])
       \/ CustomAbsentOrZero(args[5]) /\ StrictlyPositive(args[1])

\* What the claims say of the margins and the price, from the arguments.
ExpInitialMargin(args) ==
    IF CustomGiven(args[5]) THEN parseFloat(args[5])
    ELSE Div(Mul(parseFloat(args[3]), parseFloat(args[2])), parseFloat(args[1]))
ExpTotalMargin(args) == Add(ExpInitialMargin(args), parseFloat(args[4]))
ExpLiquidationPrice(args) ==
    IF direction = DirectionLONG
    THEN Sub(parseFloat(args[2]), Div(ExpTotalMargin(args), parseFloat(args[3])))
    ELSE Add(parseFloat(args[2]), Div(ExpTotalMargin(args), parseFloat(args[3])))

InvalidResult == Err("invalid result, check the inputs", "")

\* C2: for valid inputs calculateLiquidation computes initialMargin =
\* customInitialMargin when that is provided and > 0, otherwise
\* quantity*openPrice/leverage; totalMargin = initialMargin + addMargin;
\* liquidationPrice = openPrice - totalMargin/quantity under LONG and
\* openPrice + totalMargin/quantity under SHORT; it returns them when that
\* price is > 0 (calculateLiquidation(10, 100, 1, 0) under LONG: 10, 10, 90).
C2_LiquidationFormula ==
    (last.op = "calculateLiquidation" /\ LiqValidInputs(last.args)) =>
        /\ last.ok <=> Gt(ExpLiquidationPrice(last.args), Zero)
        /\ last.ok =>
              /\ last.out.initialMargin = ExpInitialMargin(last.args)
              /\ last.out.totalMargin = ExpTotalMargin(last.args)
              /\ last.out.liquidationPrice = ExpLiquidationPrice(last.args)
        /\ (/\ last.args = <<Num(Whole(10)), Num(Whole(100)), Num(Whole(1)), Num(Zero),
                             Undefined>>
            /\ direction = DirectionLONG)
           => /\ last.ok
              /\ last.out.initialMargin = Whole(10)
              /\ last.out.totalMargin = Whole(10)
              /\ last.out.liquidationPrice = Whole(90)

\* A SHORT call with a custom margin of 250 and 150 added, for 2 units
\* opened at 100: the price is 100 + 400/2.
C2_Witness ==
    /\ last.op = "calculateLiquidation"
    /\ last.args = <<Num(Whole(10)), Num(Whole(100)), Str(Whole(2)), Str(Whole(150)),
                     Str(Whole(250))>>
    /\ direction = DirectionSHORT
    /\ last.ok
    /\ last.out.initialMargin = Whole(250)
    /\ last.out.liquidationPrice = Whole(300)

\* C3 as claimed: every result calculateLiquidation returns has
\* liquidationPrice < openPrice under LONG and > openPrice under SHORT, and
\* totalMargin > 0.
C3_Original ==
    (last.op = "calculateLiquidation" /\ last.ok) =>
        /\ Gt(last.out.totalMargin, Zero)
        /\ IF direction = DirectionLONG
           THEN Lt(last.out.liquidationPrice, parseFloat(last.args[2]))
           ELSE Gt(last.out.liquidationPrice, parseFloat(last.args[2]))

\* C4: calculateLiquidation never returns a liquidationPrice that is
\* non-finite or <= 0; such a result raises the "invalid result" error, as
\* under LONG whenever totalMargin >= quantity*openPrice.
C4_NoDegenerateResult ==
    last.op = "calculateLiquidation" =>
        /\ last.ok => /\ last.out.liquidationPrice.k = "fin"
                      /\ Gt(last.out.liquidationPrice, Zero)
        /\ (/\ LiqValidInputs(last.args)
            /\ ~(ExpLiquidationPrice(last.args).k = "fin"
                 /\ Gt(ExpLiquidationPrice(last.args), Zero)))
           => ~last.ok /\ last.err = InvalidResult /\ last.out = NoOut
        /\ (/\ LiqValidInputs(last.args)
            /\ direction = DirectionLONG
            /\ Ge(ExpTotalMargin(last.args),
                  Mul(parseFloat(last.args[3]), parseFloat(last.args[2]))))
           => ~last.ok /\ last.err = InvalidResult

\* A LONG call at leverage 1 with nothing added: the margin equals the
\* position value, the price would be 0, and the call raises.
C4_Witness ==
    /\ last.op = "calculateLiquidation"
    /\ last.args = <<Num(Whole(1)), Num(Whole(100)), Num(Whole(1)), Num(Zero), Null>>
    /\ direction = DirectionLONG
    /\ ExpLiquidationPrice(last.args) = Zero
    /\ ~last.ok
    /\ last.err = InvalidResult

\* leverage is a positive number outside [1, 125]
LeverageOutside(v) ==
    StrictlyPositive(v) /\ (Lt(parseFloat(v), Whole(1)) \/ Gt(parseFloat(v), Whole(125)))

\* customInitialMargin is absent or <= 0
CustomAbsentOrNotPositive(v) ==
    Absent(v) \/ (Numeric(v) /\ Le(parseFloat(v), Zero) /\ Le(ToNumber(v), Zero))

\* C5 as claimed: with customInitialMargin absent or <= 0 and a positive
\* leverage outside [1, 125], calculateLiquidation does not raise and returns
\* isWarning = true; with the leverage inside [1, 125] a result has isWarning
\* = false.
C5_Original ==
    (/\ last.op = "calculateLiquidation"
     /\ CustomAbsentOrNotPositive(last.args[5])
     /\ StrictlyPositive(last.args[1])
     /\ ValidPositive(last.args[2])
     /\ ValidPositive(last.args[3])
     /\ ValidNonNegative(last.args[4])) =>
        IF LeverageOutside(last.args[1])
        THEN last.ok /\ last.out.isWarning
        ELSE last.ok => ~last.out.isWarning

\* C5 amended: with customInitialMargin absent or 0, a positive leverage
\* outside [1, 125] and otherwise valid arguments, calculateLiquidation
\* returns a result with isWarning = true when the liquidationPrice it
\* computes is finite and > 0, and raises the "invalid result" error
\* otherwise; with the leverage inside [1, 125] a result has isWarning =
\* false.
C5_WarningDoesNotBlock ==
    (/\ last.op = "calculateLiquidation"
     /\ CustomAbsentOrZero(last.args[5])
     /\ StrictlyPositive(last.args[1])
     /\ ValidPositive(last.args[2])
     /\ ValidPositive(last.args[3])
     /\ ValidNonNegative(last.args[4])) =>
        IF /\ ExpLiquidationPrice(last.args).k = "fin"
           /\ Gt(ExpLiquidationPrice(last.args), Zero)
        THEN last.ok /\ (last.out.isWarning <=> LeverageOutside(last.args[1]))
        ELSE ~last.ok /\ last.err = InvalidResult

\* A LONG call at leverage 200 returns, with the warning.
C5_Witness ==
    /\ last.op = "calculateLiquidation"
    /\ last.args = <<Num(Whole(200)), Num(Whole(100)), Num(Whole(1)), Num(Zero), Null>>
    /\ direction = DirectionLONG
    /\ last.ok
    /\ last.out.isWarning
    /\ last.out.liquidationPrice = Fin(199, 2)

(***************************************************************************)
(* The position sizer's claims.                                            *)
(***************************************************************************)
\* The mode the arguments select: the amount when it is a valid number, else
\* the percentage when that is one, else none.
SelectedMode(args) ==
    IF Numeric(args[2]) THEN "amount"
    ELSE IF Numeric(args[3]) THEN "percent"
    ELSE "none"

\* C7: with a valid plannedLoss calculatePosition selects one mode by
\* priority: amount when stopLossAmount is a valid number, otherwise percent
\* when stopLossPercent is one, otherwise it raises "enter stop-loss amount
\* or percentage"; a result carries one calculationType and that mode's
\* output alone (quantity or positionValue, never both).
C7_OneModeByPriority ==
    (last.op = "calculatePosition" /\ ValidPositive(last.args[1])) =>
        CASE SelectedMode(last.args) = "amount" ->
                IF last.ok
                THEN /\ last.out.calculationType = "amount"
                     /\ DOMAIN last.out = {"quantity", "stopLossAmount", "calculationType"}
                ELSE last.err.field = "stopLossAmount"
          [] SelectedMode(last.args) = "percent" ->
                IF last.ok
                THEN /\ last.out.calculationType = "percent"
                     /\ DOMAIN last.out = {"positionValue", "stopLossPercent",
                                           "calculationType"}
                ELSE last.err.field = "stopLossPercent"
          [] SelectedMode(last.args) = "none" ->
                /\ ~last.ok
                /\ last.err = Err("enter", "stopLossAmount or stopLossPercent")

\* Both parameters are valid numbers: the amount wins.
C7_Witness ==
    /\ last.op = "calculatePosition"
    /\ last.args = <<Num(Whole(100)), Str(Whole(4)), Num(Whole(10))>>
    /\ last.ok
    /\ last.out.calculationType = "amount"
    /\ last.out.quantity = Whole(25)

\* C8: in amount mode the result is quantity = plannedLoss/stopLossAmount,
\* in percent mode positionValue = plannedLoss/(stopLossPercent/100);
\* calculatePosition(100, null, 10) gives positionValue 1000.
C8_PositionFormula ==
    (last.op = "calculatePosition" /\ last.ok) =>
        /\ SelectedMode(last.args) = "amount" =>
              last.out.quantity = Div(parseFloat(last.args[1]), parseFloat(last.args[2]))
        /\ SelectedMode(last.args) = "percent" =>
              last.out.positionValue =
                  Div(parseFloat(last.args[1]), Div(parseFloat(last.args[3]), Whole(100)))
        /\ SelectedMode(last.args) # "none"
        /\ last.args = <<Num(Whole(100)), Null, Num(Whole(10))>> =>
              last.out.positionValue = Whole(1000)

\* calculatePosition(100, null, 10)
C8_Witness ==
    /\ last.op = "calculatePosition"
    /\ last.args = <<Num(Whole(100)), Null, Num(Whole(10))>>
    /\ last.ok
    /\ last.out.calculationType = "percent"
    /\ last.out.positionValue = Whole(1000)

\* C9: once a mode is selected, calculatePosition raises when the mode's
\* parameter is out of bounds (stopLossAmount <= 0; stopLossPercent <= 0 or
\* > 100) and does not fall through to the other mode, even when the other
\* parameter is valid: calculatePosition(100, 0, null) and
\* calculatePosition(100, 0, 10) raise.
C9_NoFallThrough ==
    (last.op = "calculatePosition" /\ ValidPositive(last.args[1])) =>
        /\ (SelectedMode(last.args) = "amount" /\ Le(parseFloat(last.args[2]), Zero)) =>
              ~last.ok /\ last.out = NoOut /\ last.err.field = "stopLossAmount"
        /\ (/\ SelectedMode(last.args) = "percent"
            /\ \/ Le(parseFloat(last.args[3]), Zero)
               \/ Gt(parseFloat(last.args[3]), Whole(100))) =>
              ~last.ok /\ last.out = NoOut /\ last.err.field = "stopLossPercent"
        /\ (/\ last.args[1] = Num(Whole(100))
            /\ last.args[2] = Num(Zero)
            /\ last.args[3] \in {Null, Num(Whole(10))}) =>
              ~last.ok

\* calculatePosition(100, 0, 10): the amount 0 is rejected although the
\* percentage 10 is valid.
C9_Witness ==
    /\ last.op = "calculatePosition"
    /\ last.args = <<Num(Whole(100)), Num(Zero), Num(Whole(10))>>
    /\ ~last.ok
    /\ last.err = Err("must be greater than 0", "stopLossAmount")

(***************************************************************************)
(* The tracker's claims.                                                   *)
(***************************************************************************)
TrackerRegistered == \E i \in DOMAIN listeners : listeners[i] = "tracker"

\* C10: with the tracker's listener registered, a successful setMakerFeeRate
\* recreates every record from its stored (quantity, price): the collection
\* keeps its length and order, each record keeps its quantity and price, and
\* fee = price * the new makerFeeRate, actualCost = price + fee, totalCost =
\* quantity * actualCost.
C10_RecreatedOnRateChange ==
    [][(/\ last'.op = "setMakerFeeRate"
        /\ last'.out.accepted
        /\ TrackerRegistered)
       => /\ Len(positions') = Len(positions)
          /\ \A i \in DOMAIN positions :
                LET old == positions[i]
                    new == positions'[i]
                    fee == Mul(old.price, makerFeeRate')
                IN  /\ new.quantity = old.quantity
                    /\ new.price = old.price
                    /\ new.fee = fee
                    /\ new.actualCost = Add(old.price, fee)
                    /\ new.totalCost = Mul(old.quantity, Add(old.price, fee))]_vars

\* Two records added at the default rate, then the rate set to 1% with the
\* listener registered: the fees are 1 and 2.
C10_Witness ==
    /\ last.op = "setMakerFeeRate"
    /\ last.out.accepted
    /\ TrackerRegistered
    /\ makerFeeRate = Fin(1, 100)
    /\ Len(positions) = 2
    /\ positions[1].price = Whole(100) /\ positions[1].fee = Whole(1)
    /\ positions[2].price = Whole(200) /\ positions[2].fee = Whole(2)
    /\ positions[2].quantity = Whole(2) /\ positions[2].totalCost = Whole(404)

\* C11: with the tracker's listener registered, after any sequence of
\* addPosition, removePosition, clearPositions, setMakerFeeRate,
\* setTakerFeeRate, setDirection and resetConfig every record has
\* fee = price * the maker fee rate currently stored.
C11_Original ==
    \A i \in DOMAIN positions :
        positions[i].fee = Mul(positions[i].price, makerFeeRate)

\* C12: in every reachable state the records have pairwise distinct ids, and
\* the ids increase in the order of creation (the order of the collection),
\* also for records added within one clock tick and after the recomputation
\* that re-adds every record.
C12_Original ==
    \A i, j \in DOMAIN positions : i < j => positions[i].id < positions[j].id

\* ps without its k-th record
Without(ps, k) == SubSeq(ps, 1, k - 1) \o SubSeq(ps, k + 1, Len(ps))

\* C13: removePosition(id) removes the one record matching id when there is
\* one, leaving the other records and their order unchanged (the collection
\* shrinks by exactly one), and changes and raises nothing when no record
\* has that id.
C13_Original ==
    [][last'.op = "removePosition" =>
        /\ last'.ok
        /\ IF \E k \in DOMAIN positions : positions[k].id = last'.args[1]
           THEN \E k \in DOMAIN positions :
                   /\ positions[k].id = last'.args[1]
                   /\ positions' = Without(positions, k)
           ELSE positions' = positions]_vars

RECURSIVE Total(_, _)
\* the sum of field f over the records ps
Total(ps, f) == IF ps = <<>> THEN Zero ELSE Add(Head(ps)[f], Total(Tail(ps), f))

\* C14: for a non-empty collection calculateAveragePrice returns
\* totalQuantity = the sum of the records' quantity, totalCost = the sum of
\* the records' totalCost and averagePrice = totalCost / totalQuantity, and
\* leaves the collection as it was; records (1,100) and (1,200) added at
\* maker rate 0 give 150, 2 and 300.
C14_AverageFormula ==
    [][(last'.op = "calculateAveragePrice" /\ positions # <<>>) =>
        /\ positions' = positions
        /\ last'.ok
        /\ last'.out.totalQuantity = Total(positions, "quantity")
        /\ last'.out.totalCost = Total(positions, "totalCost")
        /\ last'.out.averagePrice = Div(Total(positions, "totalCost"),
                                        Total(positions, "quantity"))
        /\ (/\ Len(positions) = 2
            /\ \A i \in 1..2 : /\ positions[i].quantity = Whole(1)
                               /\ positions[i].price = Whole(100 * i)
                               /\ positions[i].fee = Zero)
           => last'.out = [averagePrice |-> Whole(150), totalQuantity |-> Whole(2),
                           totalCost |-> Whole(300)]]_vars

\* Two units at 100 and one at 200, added at maker rate 1%: 404 for three
\* units.
C14_Witness ==
    /\ last.op = "calculateAveragePrice"
    /\ last.ok
    /\ Len(positions) = 2
    /\ positions[1].quantity = Whole(2) /\ positions[1].totalCost = Whole(202)
    /\ positions[2].quantity = Whole(1) /\ positions[2].totalCost = Whole(202)
    /\ last.out = [averagePrice |-> Fin(404, 3), totalQuantity |-> Whole(3),
                   totalCost |-> Whole(404)]

\* C15: clearPositions leaves the collection empty, and calculateAveragePrice
\* raises the empty-state error exactly when the collection is empty, so
\* after clearPositions it always raises.
C15_EmptyRaises ==
    /\ last.op = "clearPositions" => positions = <<>>
    /\ last.op = "calculateAveragePrice" =>
          /\ last.ok <=> positions # <<>>
          /\ ~last.ok => last.err = Err("no records", "")

\* The average asked of an empty collection after the rate was set to 1%.
C15_Witness ==
    /\ last.op = "calculateAveragePrice"
    /\ positions = <<>>
    /\ makerFeeRate = Fin(1, 100)
    /\ ~last.ok
    /\ last.err.msg = "no records"

(***************************************************************************)
(* The configuration's claims.                                             *)
(***************************************************************************)
Setters == {"setDirection", "setMakerFeeRate", "setTakerFeeRate"}

\* the key a setter changes
ChangedKey(op) ==
    CASE op = "setDirection" -> "direction"
      [] op = "setMakerFeeRate" -> "makerFeeRate"
      [] op = "setTakerFeeRate" -> "takerFeeRate"

\* the value stored under a key
StoredValue(key) ==
    CASE key = "direction" -> direction
      [] key = "makerFeeRate" -> makerFeeRate
      [] key = "takerFeeRate" -> takerFeeRate

\* the last call was a setter that accepted its argument
SetterSucceeded == last.op \in Setters /\ last.out.accepted

\* C16: a successful setter has, when it returns, called every registered
\* listener exactly once, in registration order, with the changed key and
\* the new value, and the stored value equalled the new value at each call.
C16_NotifiesInOrder ==
    SetterSucceeded =>
        /\ Len(notified) = Len(listeners)
        /\ \A i \in DOMAIN notified :
              /\ notified[i].listener = listeners[i]
              /\ notified[i].key = ChangedKey(last.op)
              /\ notified[i].value = StoredValue(ChangedKey(last.op))
              /\ notified[i].stored = notified[i].value
        /\ last.op = "setDirection" => direction = last.args[1]

\* setMakerFeeRate("1") with the logging listener registered before the
\* tracker's.
C16_Witness ==
    /\ SetterSucceeded
    /\ last.op = "setMakerFeeRate"
    /\ listeners = <<"log", "tracker">>
    /\ Len(notified) = 2
    /\ notified[1].listener = "log" /\ notified[2].listener = "tracker"
    /\ notified[1].value = Fin(1, 100)

\* the value the last successful setter was asked to store
Requested ==
    IF last.op = "setDirection" THEN last.args[1]
    ELSE Div(parseFloat(last.args[1]), Whole(100))

\* C17: when a listener raises during a notification, the listeners
\* registered after it are still called for that change, the setter returns
\* normally, and the change stays applied.
C17_RaisingListenerIsolated ==
    (SetterSucceeded /\ \E i \in DOMAIN listeners : listeners[i] = "faulty") =>
        /\ last.ok
        /\ \E i \in DOMAIN notified : notified[i].raised
        /\ \A j \in DOMAIN listeners :
              j \in DOMAIN notified /\ notified[j].listener = listeners[j]
        /\ StoredValue(ChangedKey(last.op)) = Requested

\* setDirection(SHORT) with a raising listener registered before the logging
\* one.
C17_Witness ==
    /\ SetterSucceeded
    /\ last.op = "setDirection"
    /\ listeners = <<"faulty", "log">>
    /\ notified[1].raised
    /\ notified[2].listener = "log" /\ ~notified[2].raised
    /\ direction = DirectionSHORT
    /\ last.ok

\* the argument is not an accepted value of the setter op: for setDirection
\* neither LONG nor SHORT, for the rate setters negative or non-numeric
InvalidSetterInput(op, v) ==
    IF op = "setDirection" THEN v \notin {DirectionLONG, DirectionSHORT}
    ELSE ~Numeric(v) \/ Lt(v.pf, Zero)

\* C18: a setter called with invalid input raises nothing, leaves direction,
\* makerFeeRate, takerFeeRate and the listener list unchanged, and calls no
\* listener.
C18_Original ==
    [][(last'.op \in Setters /\ InvalidSetterInput(last'.op, last'.args[1])) =>
        /\ last'.ok
        /\ UNCHANGED <<direction, makerFeeRate, takerFeeRate, listeners>>
        /\ notified' = <<>>]_vars

Records(ps) == {ps[i] : i \in DOMAIN ps}

\* C20: every stored record has quantity > 0, price > 0, actualCost =
\* price + fee and totalCost = quantity * actualCost, and after every step
\* each record is either a record that was there before, unchanged, or one
\* created in the step with fee = price * the maker fee rate then stored: fee,
\* actualCost and totalCost are never updated apart.
C20_RecordsWhole ==
    [][\A r \in Records(positions') :
          /\ Gt(r.quantity, Zero)
          /\ Gt(r.price, Zero)
          /\ r.actualCost = Add(r.price, r.fee)
          /\ r.totalCost = Mul(r.quantity, r.actualCost)
          /\ r \in Records(positions) \/ r.fee = Mul(r.price, makerFeeRate')]_vars

\* A record kept from the default rate (no listener registered) beside one
\* just added at 1%.
C20_Witness ==
    /\ last.op = "addPosition"
    /\ last.ok
    /\ Len(positions) = 2
    /\ makerFeeRate = Fin(1, 100)
    /\ positions[1].fee = Mul(positions[1].price, DefaultMakerFeeRate)
    /\ positions[2].fee = Mul(positions[2].price, makerFeeRate)
    /\ positions[2] = last.out

(***************************************************************************)
(* Failing calls.                                                          *)
(***************************************************************************)
Engines == {"addPosition", "calculateProfit", "calculateLiquidation", "calculatePosition"}

\* C21: an engine call that raises has no effect on state: a failing
\* addPosition (a missing, non-numeric, non-positive or extreme quantity or
\* price makes it fail) leaves the collection as it was, and a failing
\* calculateProfit, calculateLiquidation or calculatePosition leaves the
\* configuration and the collection unchanged.
C21_FailureChangesNothing ==
    [][/\ (last'.op \in Engines /\ ~last'.ok) =>
              UNCHANGED <<direction, makerFeeRate, takerFeeRate, listeners, positions>>
       /\ (last'.op = "addPosition"
             /\ (Offending(last'.args[1]) \/ Offending(last'.args[2]))) =>
              ~last'.ok /\ positions' = positions]_vars

\* addPosition with an extreme price fails under SHORT with a record in the
\* collection.
C21_Witness ==
    /\ last.op = "addPosition"
    /\ last.args[2] = Num(Huge)
    /\ ~last.ok
    /\ direction = DirectionSHORT
    /\ Len(positions) = 1

(***************************************************************************)
(* The round trip between the two sizing modes.                            *)
(***************************************************************************)
\* |a - b|
Distance(a, b) == IF Lt(a, b) THEN Sub(b, a) ELSE Sub(a, b)

CallsTo(trace, l) == {j \in DOMAIN trace : trace[j].listener = l}

\* The value the listener l received last.
LastReceived(trace, l) ==
    trace[CHOOSE j \in CallsTo(trace, l) : \A k \in CallsTo(trace, l) : k <= j].value

\* Violated: with the capper registered before the logging listener,
\* setMakerFeeRate(5) stores 0.01 and the logging listener receives 0.01
\* and then 0.05.
C23_Original ==
    (last.op = "setMakerFeeRate" /\ last.ok /\ last.out.accepted)
    => \A i \in DOMAIN listeners :
          LastReceived(notified, listeners[i]) = makerFeeRate

(***************************************************************************)
(* C24: if a listener calls removeConfigListener while a notification is   *)
(* in progress, every listener that was registered when the setter was     *)
(* called and has not been removed is still invoked exactly once for that  *)
(* change.                                                                 *)
(***************************************************************************)
\* The listeners nothing removes during the notification.
Staying == {"log", "faulty"}

\* How many times l is registered in ls.
Registrations(ls, l) == Cardinality({i \in DOMAIN ls : ls[i] = l})

\* Violated: with a "once" listener registered before the logging one,
\* setDirection('short') calls the first, which removes itself, and the loop
\* then steps over the logging listener.
C24_Original ==
    [][(last'.op = "setDirection" /\ last'.ok /\ last'.out.accepted)
       => \A l \in Staying :
             Cardinality(CallsTo(notified', l)) = Registrations(listeners, l)]_vars

(***************************************************************************)
(* C25: the id of the record addPosition returned keeps identifying that   *)
(* record: after any number of maker fee rate changes in between,          *)
(* removePosition(id) with that id still removes that record's             *)
(* (quantity, price) entry.                                                *)
(***************************************************************************)
\* The ids of ps differ pairwise.
DistinctIds(ps) == \A i, j \in DOMAIN ps : i # j => ps[i].id # ps[j].id

\* Violated: a record added at time 0 has id 0; after setMakerFeeRate('1')
\* at time 1 the tracker's listener has put it back with id 1, and
\* removePosition(0) removes nothing.
C25_Original ==
    [][(/\ last'.op = "setMakerFeeRate"
        /\ last'.out.accepted
        /\ TrackerRegistered
        /\ DistinctIds(positions))
       => \A i \in DOMAIN positions :
             removePosition(positions', positions[i].id) = Without(positions', i)]_vars

(***************************************************************************)
(* C26: when a customInitialMargin > 0 is supplied, leverage does not      *)
(* influence calculateLiquidation: two calls that differ only in the       *)
(* leverage argument both succeed or both raise, and when they succeed     *)
(* they return identical liquidationPrice, initialMargin, totalMargin and  *)
(* isWarning.                                                              *)
(***************************************************************************)
\* The leverages of the second call.
OtherLeverages == (Invalids \ {Num(Huge)}) \cup LiqLeverages

\* Violated: calculateLiquidation(10, 100, 1, 0, 5) returns isWarning =
\* false and calculateLiquidation(200, 100, 1, 0, 5) returns isWarning = true.
C26_Original ==
    (last.op = "calculateLiquidation" /\ CustomGiven(last.args[5]))
    => \A leverage \in OtherLeverages :
          LET other == calculateLiquidation(leverage, last.args[2], last.args[3],
                                            last.args[4], last.args[5])
          IN  /\ other.ok = last.ok
              /\ last.ok => /\ other.out.liquidationPrice = last.out.liquidationPrice
                            /\ other.out.initialMargin = last.out.initialMargin
                            /\ other.out.totalMargin = last.out.totalMargin
                            /\ other.out.isWarning = last.out.isWarning

====
